---- MODULE Spec2Model ----
(***************************************************************************)
(* Model of library/fortigate_remote_console.py: the class                 *)
(* fortigate_remote_console, which drives a FortiGate through a remote     *)
(* console server with pexpect (send / expect).                            *)
(*                                                                         *)
(* One run of the model is one call of one action method on a fresh        *)
(* object.  The device and the console server are the environment: every   *)
(* expect() is answered by a screen the device shows, by a timeout or by   *)
(* the end of the stream.  The program position pc is the expect() the     *)
(* code is blocked in (named <function>_<line>), or a return point of      *)
(* login/logout (named <caller>_<line of the call>).                       *)
(*                                                                         *)
(* Semantics are those of Python 2, the interpreter the module runs on:    *)
(* lines 112, 271 and 392 apply str operations to pexpect's `before`.      *)
(* pexpect.spawn() and close() themselves are taken not to raise.          *)
(***************************************************************************)
EXTENDS Integers, Sequences, FiniteSets, TLC

VARIABLES
    action,           \* rcs_fgt_action: the method run_module calls
    rcs_fgt_cli,      \* self.rcs_fgt_cli: list of texts, a text is a list of lines
    pc,               \* position of the code
    ret,              \* return point of the running login()/logout()
    rcs_console,      \* self.rcs_console: id of the transport, 0 for None
    rcs_fgt_prompt,   \* self.rcs_fgt_prompt: <<>> for None, else the six patterns
    transports,       \* transports[i]: number of close() calls on the i-th spawn
    tx,               \* texts written to the transport since the last expect()
    outputs,          \* the action's local `outputs` (the transcript)
    rcs_result,       \* the action's local rcs_result
    returned,         \* TRUE once the action has returned rcs_result
    wait_for_reboot,  \* local of the reboot-wait loops: "unbound", "True", "False"
    for_seq,          \* the list the action's for loop iterates over
    for_i,            \* position of that loop (0: not started)
    show_old,         \* purgedhcp: the first `show` capture
    login_end,        \* how the last login() ended: "none", "ready" or "error"
    last_index,       \* index returned by the last expect() (-1: it raised)
    before,           \* last line of rcs_console.before after the last expect()
    nresets,          \* 'Connection reset by peer' answers so far
    nloop             \* signals matched by reboot-wait loops so far

vars == <<action, rcs_fgt_cli, pc, ret, rcs_console, rcs_fgt_prompt, transports,
          tx, outputs, rcs_result, returned, wait_for_reboot, for_seq, for_i,
          show_old, login_end, last_index, before, nresets, nloop>>

inputv  == <<action, rcs_fgt_cli>>
sessv   == <<rcs_console, rcs_fgt_prompt, transports>>
resv    == <<outputs, rcs_result, returned>>
loopv   == <<for_seq, for_i>>
expv    == <<last_index, before>>
boundv  == <<nresets, nloop>>

----------------------------------------------------------------------------
(* Bounds of the model *)

MaxCmds == 2          \* longest cli command list
MaxResets == 1        \* 'Connection reset by peer' answers per run
MaxRebootEvents == 4  \* signals the device shows to reboot-wait loops per run

\* Two hostnames, the first one the end of the second.
Hostnames == {"FGT1", "LabFGT1"}

\* Whether the text `host` ends with the text `hostname`: expect() searches
\* its patterns anywhere in what the device has shown.
EndsWith(host, hostname) ==
    host = hostname \/ (host = "LabFGT1" /\ hostname = "FGT1")

Actions == {"cli", "reboot", "factoryreset", "erasedisk", "diskformat",
            "restoreimage", "purgedhcp"}

----------------------------------------------------------------------------
(* Texts, patterns and screens *)

None == 0

\* A text written with send()/sendline() is a sequence of string pieces;
\* a line of input is such a sequence as well.
Lit(s) == <<s>>
Blank == <<>>

\* Patterns handed to expect().
Pat(s) == [k |-> "lit", h |-> s]
RootPat(hostname) == [k |-> "root", h |-> hostname]     \* hostname + ' # '
SubPat(hostname) == [k |-> "sub", h |-> hostname]       \* hostname + ' \(.+\) # '
EOFPat == [k |-> "EOF", h |-> ""]                       \* pexpect.EOF

\* What the device can show.
Prompt(h, c) == [k |-> "prompt", h |-> h, c |-> c]      \* 'h # ' or 'h (ctx) # '
Txt(s) == [k |-> "text", h |-> s, c |-> ""]
EOFEvent == [k |-> "EOF", h |-> "", c |-> ""]

Texts == {"to accept", " login: ", "assword: ", "Login incorrect",
          "Connection reset by peer", "Do you want to continue? (y/n)",
          "System is starting", "please wait for reboot",
          "Press any key to display configuration menu...", "Enter .+:",
          "Save as Default firmware/Backup firmware/Run image without saving:[D/B/R]?",
          "exec erase-disk", "Are you sure you want to proceed? (y/n)",
          "How many times do you wish to overwrite the media?",
          "Do you want to restore the image after erasing? (y/n)",
          "You must format the boot device"}

Screens == {Prompt(h, c) : h \in Hostnames, c \in {"root", "sub"}}
             \cup {Txt(s) : s \in Texts}

\* PromptPatterns with the generic hash pattern ahead of the sub-context one.
PromptPatternsSwapped(hostname) ==
    << Pat("dummy_placeholder"), RootPat(hostname), Pat(" # "),
       SubPat(hostname), Pat(" login: "), Pat("to accept") >>

\* The prompt pattern list built at lines 116 and 718.
PromptPatterns(hostname) ==
    << Pat("dummy_placeholder"), RootPat(hostname), SubPat(hostname),
       Pat(" # "), Pat(" login: "), Pat("to accept") >>

\* Whether pattern p matches the text the device has shown.
PatMatches(p, e) ==
    CASE p.k = "root" -> e.k = "prompt" /\ e.c = "root" /\ EndsWith(e.h, p.h)
      [] p.k = "sub"  -> e.k = "prompt" /\ e.c = "sub" /\ EndsWith(e.h, p.h)
      [] p.k = "EOF"  -> e.k = "EOF"
      [] OTHER        -> IF p.h = " # " THEN e.k = "prompt"
                         ELSE e.k = "text" /\ e.h = p.h

\* Index (from 0, as pexpect counts) of the pattern expect() reports for e,
\* -1 when no pattern of the list matches.  For one shown text the patterns
\* that match start in list order (a hostname pattern starts before the
\* ' # ' of its prompt), so the first one in the list wins.
FirstMatch(patterns, e) ==
    LET hits == {i \in 1..Len(patterns) : PatMatches(patterns[i], e)}
    IN  IF hits = {} THEN -1
        ELSE (CHOOSE i \in hits : \A j \in hits : i <= j) - 1

\* ExpectErrors of a wait without a timeout: nothing is raised while the
\* device says nothing.
ExpectErrorsNever(patterns) == {}

\* The exceptions an expect(patterns) can raise: pexpect.TIMEOUT, and
\* pexpect.EOF unless the list holds the EOF pattern.
ExpectErrors(patterns) ==
    {"TIMEOUT"} \cup
    (IF \E i \in 1..Len(patterns) : patterns[i].k = "EOF" THEN {} ELSE {"EOF"})

\* The last line of `before` (as its space-separated tokens) when pattern
\* number i matched screen e.  The bare ' # ' leaves the start of the prompt
\* line, 'host' or 'host (ctx)', in `before`; a hostname pattern consumes
\* the prompt from its hostname on and leaves what the shown hostname has in
\* front of it; the fixed texts consume theirs, and what precedes ends with a
\* blank line.
LastLine(patterns, e, i) ==
    IF i >= 0 /\ patterns[i + 1] = Pat(" # ")
    THEN (IF e.c = "sub" THEN <<e.h, "(ctx)">> ELSE <<e.h>>)
    ELSE IF i >= 0 /\ patterns[i + 1].k \in {"root", "sub"}
                  /\ patterns[i + 1].h # e.h
    THEN <<"Lab">>
    ELSE <<>>

\* What one expect() that returned index i leaves behind.
Answered(patterns, e, i) ==
    /\ last_index' = i
    /\ before' = LastLine(patterns, e, i)

\* expect(patterns) returns on screen e; last_index' is the index it returns.
Matched(patterns, e) ==
    /\ FirstMatch(patterns, e) >= 0
    /\ Answered(patterns, e, FirstMatch(patterns, e))

\* expect(patterns) returns an index.
Answers(patterns) == \E e \in Screens : Matched(patterns, e)

\* What one expect() that raised leaves behind.
Raised ==
    /\ last_index' = -1
    /\ before' = <<>>

\* Hostname taking the whole end of the line: the last token, not the first.
HostnameLast(line) == IF line = <<>> THEN "" ELSE line[Len(line)]

\* Lines 112 and 715: before.splitlines()[-1].split(' ')[0]
Hostname(line) == IF line = <<>> THEN "" ELSE line[1]

\* Entries of the transcript.
Block(v) == [t |-> "block", v |-> v]     \* before.splitlines() of one wait
Error(v) == [t |-> "error", v |-> v]     \* str(error).splitlines()
Msg(v) == [t |-> "msg", v |-> v]         \* a plain string

----------------------------------------------------------------------------
(* Transport *)

\* pexpect.spawn(): a new process, not closed.
Spawned == Append(transports, 0)

\* close() on transport id.
Closed(tr, id) == [tr EXCEPT ![id] = @ + 1]

----------------------------------------------------------------------------
(* Inputs *)

CmdLines == << Lit("get system status"), Lit("show system interface"),
               Lit("set hostname"), Lit("set password") >>

\* rcs_fgt_cli for the cli action: an empty list, or one text of 0..MaxCmds lines.
CliInputs == {<<>>} \cup {<<SubSeq(CmdLines, 1, n)>> : n \in 0..MaxCmds}

DefaultCli == << <<Lit("get system status")>> >>

\* The five TFTP parameters of restoreimage, the first one quoted.
TftpLines == << <<"\"", "192.168.210.5", "\"">>, Lit("255.255.255.0"),
               Lit("192.168.210.1"), Lit("192.168.210.252"), Lit("image.out") >>

\* rcs_fgt_cli for restoreimage: no text, or one text of 0, 4 or 5 lines.
RestoreInputs == {<<>>} \cup {<<SubSeq(TftpLines, 1, n)>> : n \in {0, 4, 5}}

\* Only cli and restoreimage read rcs_fgt_cli; the others get the default of
\* line 810.
InputsOf(a) ==
    CASE a = "cli" -> CliInputs
      [] a = "restoreimage" -> RestoreInputs
      [] OTHER -> {DefaultCli}

Init ==
    /\ action \in Actions
    /\ rcs_fgt_cli \in InputsOf(action)
    /\ pc = "start"
    /\ ret = "none"
    /\ rcs_console = None
    /\ rcs_fgt_prompt = <<>>
    /\ transports = <<>>
    /\ tx = <<>>
    /\ outputs = <<>>
    /\ rcs_result = [status |-> 1, changed |-> FALSE]
    /\ returned = FALSE
    /\ wait_for_reboot = "unbound"
    /\ for_seq = <<>>
    /\ for_i = 0
    /\ show_old = <<>>
    /\ login_end = "none"
    /\ last_index = -1
    /\ before = <<>>
    /\ nresets = 0
    /\ nloop = 0

----------------------------------------------------------------------------
(* fortigate_remote_console_login *)

\* Calling login(): line 665 spawns the transport and the code blocks in the
\* expect of line 666.
CallLogin(r) ==
    /\ ret' = r
    /\ pc' = "login_666"
    /\ transports' = Spawned
    /\ rcs_console' = Len(transports) + 1
    /\ tx' = <<>>
    /\ login_end' = "none"

\* except/finally of login: the error goes to login's own outputs, which
\* every caller drops; login returns.
LoginRaise ==
    /\ pc' = ret
    /\ login_end' = "error"
    /\ Raised
    /\ tx' = <<>>
    /\ UNCHANGED <<inputv, ret, sessv, resv, wait_for_reboot, loopv, show_old, boundv>>

\* A wait of login that raises.
LoginWaitFails(patterns) ==
    \E x \in ExpectErrors(patterns) : LoginRaise

\* Next turn of the `while index != 3` loop: line 677.
LoginProbe ==
    /\ pc' = "login_678"
    /\ tx' = <<Blank>>

\* ConnectAgain without the retry: the loop ends after its first turn.
ConnectAgainNever(index) == FALSE

\* Line 661, `while index`: the connect loop turns again.
ConnectAgain(index) == index # 0

ConnectPatterns == << Pat("assword: "), Pat("Connection reset by peer") >>

\* Lines 661-677: the connect loop.
login_connect ==
    /\ pc = "login_666"
    /\ \/ \E e \in Screens, index \in {0, 1} :
            /\ FirstMatch(ConnectPatterns, e) = index
            /\ ~ConnectAgain(index)
            /\ Answered(ConnectPatterns, e, index)
            \* 671: the console server password, then 677
            /\ pc' = "login_678"
            /\ tx' = <<Lit("rcs_password"), Blank>>
            /\ UNCHANGED <<inputv, ret, sessv, resv, wait_for_reboot, loopv,
                           show_old, login_end, boundv>>
       \/ \E e \in Screens, index \in {0, 1} :
            /\ FirstMatch(ConnectPatterns, e) = index
            /\ ConnectAgain(index)
            /\ nresets < MaxResets
            /\ nresets' = nresets + 1
            /\ Answered(ConnectPatterns, e, index)
            \* 665 again: the handle is overwritten by a new spawn
            /\ transports' = Spawned
            /\ rcs_console' = Len(transports) + 1
            /\ tx' = <<>>
            /\ UNCHANGED <<inputv, pc, ret, rcs_fgt_prompt, resv, wait_for_reboot,
                           loopv, show_old, login_end, nloop>>
       \/ LoginWaitFails(ConnectPatterns)

ClassifyPatterns == << Pat("dummy_placeholder"), Pat("to accept"), Pat(" login: "),
                       Pat(" # "), EOFPat >>

\* ClassifyCredentials logging in at an open hash prompt as well.
ClassifyCredentialsAlways(i) == i = 2 \/ i = 3

\* Line 692: the classification that starts the device login.
ClassifyCredentials(i) == i = 2

\* Lines 678-692, 714-721: classify what the device shows.
login_classify ==
    /\ pc = "login_678"
    /\ \/ \E e \in Screens \cup {EOFEvent}, i \in {1, 2, 3, 4} :
            /\ FirstMatch(ClassifyPatterns, e) = i
            /\ Answered(ClassifyPatterns, e, i)
            /\ CASE i = 1 -> /\ tx' = <<Lit("a")>>
                             /\ pc' = "login_689"
                             /\ UNCHANGED rcs_fgt_prompt
                 [] ClassifyCredentials(i) ->
                             /\ tx' = <<Lit("rcs_fgt_username")>>
                             /\ pc' = "login_695"
                             /\ UNCHANGED rcs_fgt_prompt
                 [] i = 3 -> /\ rcs_fgt_prompt' = PromptPatterns(Hostname(before'))
                             /\ tx' = <<Blank>>
                             /\ pc' = "login_722"
                 [] i = 4 -> /\ LoginProbe
                             /\ UNCHANGED rcs_fgt_prompt
            /\ UNCHANGED <<inputv, ret, rcs_console, transports, resv,
                           wait_for_reboot, loopv, show_old, login_end, boundv>>
       \/ LoginWaitFails(ClassifyPatterns)

\* A wait of login for one pattern, after which the classify loop turns again.
LoginStep(at, pattern, sent, next) ==
    /\ pc = at
    /\ \/ \E e \in Screens :
            /\ FirstMatch(<<pattern>>, e) = 0
            /\ Answered(<<pattern>>, e, 0)
            /\ tx' = sent
            /\ pc' = next
            /\ UNCHANGED <<inputv, ret, sessv, resv, wait_for_reboot, loopv,
                           show_old, login_end, boundv>>
       \/ LoginWaitFails(<<pattern>>)

\* Lines 689-691: the login prompt after the banner was accepted.
login_banner == LoginStep("login_689", Pat(" login: "), <<Blank>>, "login_678")

\* Lines 695-699: the password prompt; the device password is sent.
login_password ==
    LoginStep("login_695", Pat("assword: "), <<Lit("rcs_fgt_password")>>, "login_700")

AuthPatterns == << Pat(" # "), Pat("Login incorrect") >>

\* Lines 700-705: the answer to the password.
login_auth ==
    /\ pc = "login_700"
    /\ \/ \E e \in Screens, login_index \in {0, 1} :
            /\ FirstMatch(AuthPatterns, e) = login_index
            /\ Answered(AuthPatterns, e, login_index)
            /\ IF login_index # 0
               THEN /\ tx' = <<Lit("rcs_fgt_username")>>
                    /\ pc' = "login_706"
               ELSE LoginProbe
            /\ UNCHANGED <<inputv, ret, sessv, resv, wait_for_reboot, loopv,
                           show_old, login_end, boundv>>
       \/ LoginWaitFails(AuthPatterns)

\* login_retry_password sending the device password a second time.
login_retry_same_password ==
    LoginStep("login_706", Pat("assword: "), <<Lit("rcs_fgt_password")>>, "login_711")

\* Lines 706-710: the password prompt of the retry; a blank password is sent.
login_retry_password ==
    LoginStep("login_706", Pat("assword: "), <<Blank>>, "login_711")

\* Lines 711-713: the retry must reach a hash prompt.
login_retry_auth == LoginStep("login_711", Pat(" # "), <<Blank>>, "login_678")

\* A wait of login on self.rcs_fgt_prompt that returns an index.
LoginPromptAnswers ==
    /\ Answers(rcs_fgt_prompt)
    /\ UNCHANGED <<inputv, ret, sessv, resv, wait_for_reboot, loopv, show_old,
                   boundv>>

\* Leaving the `while prompt_index != 1` loop, and with it the outer loop:
\* line 737.
LoginPagingOff ==
    /\ tx' = <<Lit("config global")>>
    /\ pc' = "login_738"

\* Lines 722-726: normalise to the root prompt.
NormalizeThen(prompt_index) ==
    /\ CASE prompt_index = 1 -> LoginPagingOff
         [] prompt_index = 2 -> tx' = <<Lit("abort")>> /\ pc' = "login_727"
         [] OTHER -> tx' = <<Blank>> /\ pc' = "login_722"
    /\ UNCHANGED login_end

login_normalize ==
    /\ pc = "login_722"
    /\ \/ LoginPromptAnswers /\ NormalizeThen(last_index')
       \/ LoginWaitFails(rcs_fgt_prompt)

\* Lines 727-731: after 'abort'.
AbortThen(prompt_index) ==
    /\ tx' = <<Lit("end")>>
    /\ pc' = "login_732"
    /\ UNCHANGED login_end

login_abort ==
    /\ pc = "login_727"
    /\ \/ LoginPromptAnswers /\ AbortThen(last_index')
       \/ LoginWaitFails(rcs_fgt_prompt)

\* EndThen without the loop test: the paging-off sequence follows 'end'
\* whatever the prompt.
EndThenPaging(prompt_index) ==
    /\ LoginPagingOff
    /\ UNCHANGED login_end

\* Lines 732-734 and the loop test of line 720.
EndThen(prompt_index) ==
    /\ IF prompt_index = 1 THEN LoginPagingOff
       ELSE tx' = <<Blank>> /\ pc' = "login_722"
    /\ UNCHANGED login_end

login_end_sub ==
    /\ pc = "login_732"
    /\ \/ LoginPromptAnswers /\ EndThen(last_index')
       \/ LoginWaitFails(rcs_fgt_prompt)

\* Lines 738-760: the paging-off sequence; the index of each wait is not read.
PagingText(at) ==
    CASE at = "login_738" -> Lit("config system console")
      [] at = "login_743" -> Lit("set output standard")
      [] at = "login_748" -> Lit("end")
      [] at = "login_753" -> Lit("end")

PagingNext(at) ==
    CASE at = "login_738" -> "login_743"
      [] at = "login_743" -> "login_748"
      [] at = "login_748" -> "login_753"
      [] at = "login_753" -> "login_758"

PagingThen(prompt_index) ==
    /\ tx' = <<PagingText(pc)>>
    /\ pc' = PagingNext(pc)
    /\ UNCHANGED login_end

login_paging ==
    /\ pc \in {"login_738", "login_743", "login_748", "login_753"}
    /\ \/ LoginPromptAnswers /\ PagingThen(last_index')
       \/ LoginWaitFails(rcs_fgt_prompt)

\* Lines 758-766: the last wait; login returns without an error.
ReadyThen(prompt_index) ==
    /\ tx' = <<>>
    /\ pc' = ret
    /\ login_end' = "ready"

login_ready ==
    /\ pc = "login_758"
    /\ \/ LoginPromptAnswers /\ ReadyThen(last_index')
       \/ LoginWaitFails(rcs_fgt_prompt)

Login ==
    \/ login_connect
    \/ login_classify
    \/ login_banner
    \/ login_password
    \/ login_auth
    \/ login_retry_password
    \/ login_retry_auth
    \/ login_normalize
    \/ login_abort
    \/ login_end_sub
    \/ login_paging
    \/ login_ready

----------------------------------------------------------------------------
(* fortigate_remote_console_logout *)

\* Calling logout(): lines 775-777, the code blocks in the expect of line 778.
CallLogout(r) ==
    /\ ret' = r
    /\ pc' = "logout_778"
    /\ tx' = <<Blank>>

\* Lines 794-798: the finally block closes the transport and logout returns.
LogoutFinally ==
    /\ transports' = IF rcs_console # None THEN Closed(transports, rcs_console)
                     ELSE transports
    /\ rcs_console' = None
    /\ pc' = ret

\* Lines 788-789, then the finally block.
LogoutExit ==
    /\ tx' = <<Lit("exit")>>
    /\ LogoutFinally

\* LogoutWaitFails with the exception leaving logout() before its finally
\* block: the transport stays open.
LogoutWaitFailsOpen ==
    \E x \in ExpectErrors(rcs_fgt_prompt) :
        /\ Raised
        /\ tx' = <<>>
        /\ pc' = ret
        /\ UNCHANGED <<rcs_console, transports>>

\* A wait of logout that raises: the exception is caught at line 791 and the
\* finally block runs.
LogoutWaitFails ==
    \E x \in ExpectErrors(rcs_fgt_prompt) :
        /\ Raised
        /\ tx' = <<>>
        /\ LogoutFinally

\* What logout() does not write.
LogoutKeeps ==
    UNCHANGED <<inputv, ret, rcs_fgt_prompt, resv, wait_for_reboot, loopv,
                show_old, login_end, boundv>>

\* Lines 778-782.
LogoutProbeThen(prompt_index) ==
    CASE prompt_index = 1 -> LogoutExit
      [] prompt_index = 2 -> /\ tx' = <<Lit("abort")>>
                             /\ pc' = "logout_783"
                             /\ UNCHANGED <<rcs_console, transports>>
      [] OTHER -> /\ tx' = <<Blank>>
                  /\ pc' = "logout_778"
                  /\ UNCHANGED <<rcs_console, transports>>

logout_probe ==
    /\ pc = "logout_778"
    /\ \/ Answers(rcs_fgt_prompt) /\ LogoutProbeThen(last_index')
       \/ LogoutWaitFails
    /\ LogoutKeeps

\* Lines 783-785 and the loop test of line 776.
LogoutAbortThen(prompt_index) ==
    IF prompt_index = 1 THEN LogoutExit
    ELSE /\ tx' = <<Blank>>
         /\ pc' = "logout_778"
         /\ UNCHANGED <<rcs_console, transports>>

logout_abort ==
    /\ pc = "logout_783"
    /\ \/ Answers(rcs_fgt_prompt) /\ LogoutAbortThen(last_index')
       \/ LogoutWaitFails
    /\ LogoutKeeps

Logout == logout_probe \/ logout_abort

----------------------------------------------------------------------------
(* What the action methods share *)

\* rcs_result['console_action_result'] = outputs; return rcs_result.
Return ==
    /\ returned' = TRUE
    /\ pc' = "done"

\* The finally block of reboot, factoryreset, erasedisk and restoreimage
\* (lines 183-188, 236-241, 356-361, 585-590) and of diskformat (450-455).
FinallyClose ==
    /\ transports' = IF rcs_console # None THEN Closed(transports, rcs_console)
                     ELSE transports
    /\ rcs_console' = None
    /\ Return

\* The finally block of cli and purgedhcp (lines 131-136, 648-653): logout
\* when a transport is held; r is the return point of that call.
FinallyLogout(r) ==
    IF rcs_console # None
    THEN /\ CallLogout(r)
         /\ UNCHANGED <<rcs_console, transports, returned>>
    ELSE /\ Return
         /\ tx' = <<>>
         /\ UNCHANGED <<ret, rcs_console, transports>>

\* Lines 134-136 and 651-653, after logout() returned.
AfterLogout(at) ==
    /\ pc = at
    /\ rcs_console' = None
    /\ Return
    /\ UNCHANGED <<inputv, ret, rcs_fgt_prompt, transports, tx, outputs, rcs_result,
                   wait_for_reboot, loopv, show_old, login_end, expv, boundv>>

----------------------------------------------------------------------------
(* fortigate_remote_console_cli *)

\* Lines 94-100.
cli_begin ==
    /\ pc = "start"
    /\ action = "cli"
    /\ outputs' = <<>>
    /\ rcs_result' = [status |-> 1, changed |-> FALSE]
    /\ CallLogin("cli_100")
    /\ UNCHANGED <<inputv, rcs_fgt_prompt, returned, wait_for_reboot, loopv,
                   show_old, expv, boundv>>

\* Lines 128-133: an exception inside the try block.
CliRaise(error) ==
    /\ outputs' = Append(outputs, Error(error))
    /\ FinallyLogout("cli_133")
    /\ UNCHANGED <<rcs_result, rcs_fgt_prompt>>

\* Lines 125-126 after the for loop ended, then the finally block.
CliLoopEnd(out) ==
    /\ outputs' = out
    /\ rcs_result' = [rcs_result EXCEPT !.status = 0, !.changed = TRUE]
    /\ FinallyLogout("cli_133")

\* Lines 104-105: the for loop starts.
cli_commands ==
    /\ pc = "cli_100"
    /\ IF Len(rcs_fgt_cli) = 0
       THEN /\ CliRaise("IndexError")
            /\ UNCHANGED loopv
       ELSE /\ for_seq' = rcs_fgt_cli[1]
            /\ IF Len(rcs_fgt_cli[1]) = 0
               THEN /\ CliLoopEnd(outputs)
                    /\ UNCHANGED <<for_i, rcs_fgt_prompt>>
               ELSE /\ for_i' = 1
                    /\ tx' = <<rcs_fgt_cli[1][1]>>
                    /\ pc' = "cli_107"
                    /\ UNCHANGED <<ret, sessv, resv>>
    /\ UNCHANGED <<inputv, wait_for_reboot, show_old, login_end, expv, boundv>>

\* Lines 104-105: the next turn of the for loop, or its end.
CliNext(out) ==
    IF for_i < Len(for_seq)
    THEN /\ for_i' = for_i + 1
         /\ tx' = <<for_seq[for_i + 1]>>
         /\ outputs' = out
         /\ UNCHANGED <<pc, ret, rcs_console, transports, rcs_result, returned>>
    ELSE /\ CliLoopEnd(out)
         /\ UNCHANGED for_i

\* CliAbort without the break of line 123: the for loop goes on.
CliAbortGoesOn(out) ==
    /\ CliNext(Append(out, Msg("password was changed")))
    /\ UNCHANGED rcs_fgt_prompt

\* Lines 118-126, then the finally block with no transport held.
CliAbort(out) ==
    /\ outputs' = Append(out, Msg("password was changed"))
    /\ transports' = Closed(transports, rcs_console)
    /\ rcs_console' = None
    /\ rcs_result' = [rcs_result EXCEPT !.status = 0, !.changed = TRUE]
    /\ tx' = <<>>
    /\ Return
    /\ UNCHANGED <<ret, rcs_fgt_prompt, for_i>>

\* CliRecord with the append of line 109 left out.
CliRecordNothing(out, command) == out

\* Lines 108-109: the captured block of one command, which starts with the
\* echo of the command.
CliRecord(out, command) ==
    Append(out, Block(IF command = <<>> THEN "" ELSE command[1]))

\* HostnameChanged reading the sub-context slot instead.
HostnameChangedSub(index) == index = 2

\* Line 111: the index read as a changed hostname.
HostnameChanged(index) == index = 3

\* Line 118: the indexes read as a changed password.
PasswordChanged(index) == index = 4 \/ index = 5

\* Lines 107-123: the answer to one command.
cli_command ==
    /\ pc = "cli_107"
    /\ \/ \E e \in Screens, index \in 1..5 :
            /\ FirstMatch(rcs_fgt_prompt, e) = index
            /\ Answered(rcs_fgt_prompt, e, index)
            /\ LET out == CliRecord(outputs, for_seq[for_i])
               IN  IF HostnameChanged(index)
                   THEN /\ rcs_fgt_prompt' = PromptPatterns(Hostname(before'))
                        /\ CliNext(out)
                   ELSE IF PasswordChanged(index)
                   THEN CliAbort(out)
                   ELSE CliNext(out) /\ UNCHANGED rcs_fgt_prompt
       \/ \E x \in ExpectErrors(rcs_fgt_prompt) :
            /\ Raised
            /\ CliRaise(x)
            /\ UNCHANGED for_i
    /\ UNCHANGED <<inputv, for_seq, wait_for_reboot, show_old, login_end, boundv>>

cli_return == AfterLogout("cli_133")

Cli == cli_begin \/ cli_commands \/ cli_command \/ cli_return

----------------------------------------------------------------------------
(* Steps of the action methods *)

\* Lines 140-146 and their like: the presets and the call of login().
Begin(a, r) ==
    /\ pc = "start"
    /\ action = a
    /\ outputs' = <<>>
    /\ rcs_result' = [status |-> 1, changed |-> FALSE]
    /\ CallLogin(r)
    /\ UNCHANGED <<inputv, rcs_fgt_prompt, returned, wait_for_reboot, loopv,
                   show_old, expv, boundv>>

\* The try block goes on: `sent` is written and the code blocks in `next`.
Sends(sent, next) ==
    /\ tx' = sent
    /\ pc' = next
    /\ UNCHANGED <<ret, rcs_console, transports, rcs_result, returned>>

\* `except Exception` of the actions that end with close(): the error text
\* is appended to out, then the finally block.
RaiseClose(out, error) ==
    /\ outputs' = Append(out, Error(error))
    /\ tx' = <<>>
    /\ FinallyClose
    /\ UNCHANGED <<ret, rcs_result>>

\* `except Exception` of purgedhcp (lines 645-650).
RaiseLogout(out, error) ==
    /\ outputs' = Append(out, Error(error))
    /\ FinallyLogout("purgedhcp_650")
    /\ UNCHANGED rcs_result

\* The `except Exception` an error of the try block reaches: that of
\* purgedhcp ends with logout(), the others with close().
RaiseTo(handler, out, error) ==
    IF handler = "logout" THEN RaiseLogout(out, error) ELSE RaiseClose(out, error)

\* An expect(patterns) of the try block raises.
Fails(patterns, handler) ==
    \E x \in ExpectErrors(patterns) :
        /\ Raised
        /\ RaiseTo(handler, outputs, x)

\* outputs.append(output) for the wait labelled `label`; "" when the code
\* does not record that wait.
Recorded(label) == IF label = "" THEN outputs ELSE Append(outputs, Block(label))

\* A wait whose index is not read: record, send, go on.
Linear(at, patterns, label, sent, next, handler) ==
    /\ pc = at
    /\ \/ /\ Answers(patterns)
          /\ outputs' = Recorded(label)
          /\ Sends(sent, next)
       \/ Fails(patterns, handler)
    /\ UNCHANGED <<inputv, rcs_fgt_prompt, wait_for_reboot, loopv, show_old,
                   login_end, boundv>>

\* Line 149 and its like, after login() returned: 'config global'.
EnterGlobal(at, next) ==
    /\ pc = at
    /\ Sends(<<Lit("config global")>>, next)
    /\ UNCHANGED <<inputv, rcs_fgt_prompt, outputs, wait_for_reboot, loopv,
                   show_old, login_end, expv, boundv>>

ConfirmPatterns == << Pat("Do you want to continue? (y/n)") >>

----------------------------------------------------------------------------
(* The reboot-wait loop *)

\* Lines 164, 322, 429.
RebootPatterns5 == << Pat("dummy_placeholder"), Pat("to accept"), Pat(" login: "),
                      Pat("System is starting"), Pat("please wait for reboot") >>

\* RebootPatterns4 waiting for the banner where the login prompt should be.
RebootPatterns4Banner == << Pat("dummy_placeholder"), Pat("to accept"),
                            Pat("System is starting"), Pat("please wait for reboot") >>

\* Lines 217, 566.
RebootPatterns4 == << Pat("dummy_placeholder"), Pat(" login: "),
                      Pat("System is starting"), Pat("please wait for reboot") >>

\* Lines 168-171: the flag after index was matched.
FlagAfter(index, starting, waiting, flag) ==
    IF index = waiting THEN "True"
    ELSE IF index = starting THEN "False"
    ELSE flag

\* SkipsPrompt without the test of line 173: no prompt is skipped.
SkipsPromptNever(flag) == FALSE

\* Lines 172-175: a terminal index is skipped when the flag is set.
SkipsPrompt(flag) == flag = "True"

\* Succeed with line 178 left out: changed keeps its preset.
SucceedUnchanged(out) ==
    /\ outputs' = out
    /\ rcs_result' = [rcs_result EXCEPT !.status = 0]
    /\ tx' = <<>>
    /\ FinallyClose
    /\ UNCHANGED ret

\* Lines 177-178, 230-231, 579-580, then the finally block.
Succeed(out) ==
    /\ outputs' = out
    /\ rcs_result' = [rcs_result EXCEPT !.status = 0, !.changed = TRUE]
    /\ tx' = <<>>
    /\ FinallyClose
    /\ UNCHANGED ret

\* One turn of the loop `while index not in terminal`.  Reading the flag
\* while it is unbound raises UnboundLocalError.  This is the loop of reboot,
\* factoryreset and restoreimage, which is followed by lines 177-178.
RebootWait(at, patterns, terminal, starting, waiting) ==
    /\ pc = at
    /\ \/ \E e \in Screens, index \in 1..4 :
            /\ FirstMatch(patterns, e) = index
            /\ nloop < MaxRebootEvents
            /\ nloop' = nloop + 1
            /\ Answered(patterns, e, index)
            /\ LET out == Append(outputs, Block(e.h))
                   flag == FlagAfter(index, starting, waiting, wait_for_reboot)
               IN  /\ wait_for_reboot' = flag
                   /\ IF index \in terminal
                      THEN IF flag = "unbound"
                           THEN RaiseClose(out, "UnboundLocalError")
                           ELSE IF SkipsPrompt(flag)
                                THEN outputs' = out /\ Sends(<<>>, at)
                                ELSE Succeed(out)
                      ELSE outputs' = out /\ Sends(<<>>, at)
       \/ \E x \in ExpectErrors(patterns) :
            /\ Raised
            /\ RaiseClose(outputs, x)
            /\ UNCHANGED <<wait_for_reboot, nloop>>
    /\ UNCHANGED <<inputv, rcs_fgt_prompt, loopv, show_old, login_end, nresets>>

----------------------------------------------------------------------------
(* fortigate_remote_console_reboot *)

reboot_begin == Begin("reboot", "reboot_146")

reboot_global == EnterGlobal("reboot_146", "reboot_150")

\* Lines 150-153.
reboot_exec ==
    Linear("reboot_150", rcs_fgt_prompt, "", <<Lit("exec reboot")>>, "reboot_154",
           "close")

\* Lines 154-162.
reboot_confirm ==
    Linear("reboot_154", ConfirmPatterns, "exec reboot", <<Lit("y")>>, "reboot_164",
           "close")

\* Lines 163-178.
reboot_wait ==
    RebootWait("reboot_164", RebootPatterns5, {1, 2}, 3, 4)

Reboot == reboot_begin \/ reboot_global \/ reboot_exec \/ reboot_confirm
            \/ reboot_wait

----------------------------------------------------------------------------
(* fortigate_remote_console_factoryreset *)

factoryreset_begin == Begin("factoryreset", "factoryreset_199")

factoryreset_global == EnterGlobal("factoryreset_199", "factoryreset_203")

\* Lines 203-206.
factoryreset_exec ==
    Linear("factoryreset_203", rcs_fgt_prompt, "", <<Lit("exec factoryreset")>>,
           "factoryreset_207", "close")

\* Lines 207-215.
factoryreset_confirm ==
    Linear("factoryreset_207", ConfirmPatterns, "exec factoryreset", <<Lit("y")>>,
           "factoryreset_217", "close")

\* Lines 216-231.
factoryreset_wait ==
    RebootWait("factoryreset_217", RebootPatterns4, {1}, 2, 3)

Factoryreset == factoryreset_begin \/ factoryreset_global \/ factoryreset_exec
                  \/ factoryreset_confirm \/ factoryreset_wait

----------------------------------------------------------------------------
(* fortigate_remote_console_restoreimage *)

\* Unquoted without the replace: the line as it was given.
UnquotedNot(line) == line

\* str.replace('"', ''): the line without its double quotes.
Unquoted(line) == SelectSeq(line, LAMBDA c : c # "\"")

EnterPatterns == << Pat("Enter .+:") >>

restoreimage_begin == Begin("restoreimage", "restoreimage_466")

restoreimage_global == EnterGlobal("restoreimage_466", "restoreimage_469")

\* Lines 469-472.
restoreimage_exec ==
    Linear("restoreimage_469", rcs_fgt_prompt, "", <<Lit("exec reboot")>>,
           "restoreimage_473", "close")

\* Lines 473-478.
restoreimage_confirm ==
    Linear("restoreimage_473", ConfirmPatterns, "exec reboot", <<Lit("y")>>,
           "restoreimage_483", "close")

\* Lines 483-488: the recovery menu banner.
restoreimage_menu ==
    Linear("restoreimage_483",
           << Pat("Press any key to display configuration menu...") >>,
           "boot", <<Blank>>, "restoreimage_489", "close")

\* Lines 489-493.
restoreimage_config ==
    Linear("restoreimage_489", EnterPatterns, "menu", <<Lit("C")>>,
           "restoreimage_494", "close")

\* Lines 494-507: the parameters are read from rcs_fgt_cli[0]; a missing
\* text or line raises IndexError.
restoreimage_params ==
    /\ pc = "restoreimage_494"
    /\ \/ /\ Answers(EnterPatterns)
          /\ LET out == Append(outputs, Block("C"))
             IN  IF Len(rcs_fgt_cli) = 0 \/ Len(rcs_fgt_cli[1]) < 5
                 THEN RaiseClose(out, "IndexError") /\ UNCHANGED for_seq
                 ELSE /\ outputs' = out
                      /\ for_seq' = [k \in 1..5 |-> Unquoted(rcs_fgt_cli[1][k])]
                      /\ Sends(<<Lit("I"), Unquoted(rcs_fgt_cli[1][1])>>,
                               "restoreimage_509")
       \/ /\ Fails(EnterPatterns, "close")
          /\ UNCHANGED for_seq
    /\ UNCHANGED <<inputv, rcs_fgt_prompt, wait_for_reboot, for_i, show_old,
                   login_end, boundv>>

\* Lines 509-560: one row per wait of the wizard: the position, the label of
\* the recorded block, the menu key sent next, the parameter sent after the
\* key (0: none) and the next position.
WizardRows ==
    << [at |-> "restoreimage_509", label |-> "I", key |-> "S", param |-> 2,
        next |-> "restoreimage_517"],
       [at |-> "restoreimage_517", label |-> "S", key |-> "G", param |-> 3,
        next |-> "restoreimage_525"],
       [at |-> "restoreimage_525", label |-> "G", key |-> "T", param |-> 4,
        next |-> "restoreimage_533"],
       [at |-> "restoreimage_533", label |-> "T", key |-> "F", param |-> 5,
        next |-> "restoreimage_542"],
       [at |-> "restoreimage_542", label |-> "F", key |-> "R", param |-> 0,
        next |-> "restoreimage_548"],
       [at |-> "restoreimage_548", label |-> "R", key |-> "Q", param |-> 0,
        next |-> "restoreimage_554"],
       [at |-> "restoreimage_554", label |-> "Q", key |-> "T", param |-> 0,
        next |-> "restoreimage_560"] >>

\* send(key), then sendline(parameter) where the row has one.
WizardSent(row) ==
    IF row.param = 0 THEN <<Lit(row.key)>> ELSE <<Lit(row.key), for_seq[row.param]>>

restoreimage_wizard ==
    \E k \in 1..Len(WizardRows) :
        /\ pc = WizardRows[k].at
        /\ Linear(WizardRows[k].at, EnterPatterns, WizardRows[k].label,
                  WizardSent(WizardRows[k]), WizardRows[k].next, "close")

\* Lines 560-564: the save question is answered 'D'; the wait is not recorded.
restoreimage_save ==
    Linear("restoreimage_560",
           << Pat("Save as Default firmware/Backup firmware/Run image without saving:[D/B/R]?") >>,
           "", <<Lit("D")>>, "restoreimage_566", "close")

\* Lines 565-580.
restoreimage_wait ==
    RebootWait("restoreimage_566", RebootPatterns4, {1}, 2, 3)

Restoreimage == restoreimage_begin \/ restoreimage_global \/ restoreimage_exec
                  \/ restoreimage_confirm \/ restoreimage_menu
                  \/ restoreimage_config \/ restoreimage_params
                  \/ restoreimage_wizard \/ restoreimage_save \/ restoreimage_wait

----------------------------------------------------------------------------
(* fortigate_remote_console_purgedhcp *)

\* What `show` can print in the dhcp server context.
ShowOutputs == {"no lease", "one lease"}

purgedhcp_begin == Begin("purgedhcp", "purgedhcp_600")

purgedhcp_global == EnterGlobal("purgedhcp_600", "purgedhcp_604")

\* Lines 604-606.
purgedhcp_dhcp ==
    Linear("purgedhcp_604", rcs_fgt_prompt, "", <<Lit("config system dhcp server")>>,
           "purgedhcp_607", "logout")

\* Lines 607-611.
purgedhcp_show ==
    Linear("purgedhcp_607", rcs_fgt_prompt, "config system dhcp server",
           <<Lit("show")>>, "purgedhcp_612", "logout")

\* Lines 612-618: the first capture.
purgedhcp_old ==
    /\ pc = "purgedhcp_612"
    /\ \/ /\ Answers(rcs_fgt_prompt)
          /\ \E output \in ShowOutputs :
                /\ outputs' = Append(outputs, Block(output))
                /\ show_old' = Block(output)
                /\ Sends(<<Lit("purge")>>, "purgedhcp_619")
       \/ /\ Fails(rcs_fgt_prompt, "logout")
          /\ UNCHANGED show_old
    /\ UNCHANGED <<inputv, rcs_fgt_prompt, wait_for_reboot, loopv, login_end, boundv>>

\* Lines 619-624.
purgedhcp_confirm ==
    Linear("purgedhcp_619", ConfirmPatterns, "purge", <<Lit("y")>>, "purgedhcp_625",
           "logout")

\* Lines 625-629.
purgedhcp_purged ==
    Linear("purgedhcp_625", rcs_fgt_prompt, "y", <<Lit("show")>>, "purgedhcp_630",
           "logout")

\* ShowChanged without the comparison of line 636.
ShowChangedAlways(old, new) == TRUE

\* Line 636: show_old != show_new.
ShowChanged(old, new) == old # new

\* Lines 630-638: the second capture and the comparison.
purgedhcp_new ==
    /\ pc = "purgedhcp_630"
    /\ \/ /\ Answers(rcs_fgt_prompt)
          /\ \E output \in ShowOutputs :
                LET show_new == Block(output)
                IN  /\ outputs' = Append(outputs, show_new)
                    /\ rcs_result' = [rcs_result EXCEPT
                                        !.changed = IF ShowChanged(show_old, show_new)
                                                    THEN TRUE ELSE @]
                    /\ tx' = <<Lit("end")>>
                    /\ pc' = "purgedhcp_639"
                    /\ UNCHANGED <<ret, rcs_console, transports, returned>>
       \/ Fails(rcs_fgt_prompt, "logout")
    /\ UNCHANGED <<inputv, rcs_fgt_prompt, wait_for_reboot, loopv, show_old,
                   login_end, boundv>>

\* Lines 639-643, then the finally block.
purgedhcp_end ==
    /\ pc = "purgedhcp_639"
    /\ \/ /\ Answers(rcs_fgt_prompt)
          /\ outputs' = Append(outputs, Block("end"))
          /\ rcs_result' = [rcs_result EXCEPT !.status = 0]
          /\ FinallyLogout("purgedhcp_650")
       \/ Fails(rcs_fgt_prompt, "logout")
    /\ UNCHANGED <<inputv, rcs_fgt_prompt, wait_for_reboot, loopv, show_old,
                   login_end, boundv>>

purgedhcp_return == AfterLogout("purgedhcp_650")

Purgedhcp == purgedhcp_begin \/ purgedhcp_global \/ purgedhcp_dhcp
               \/ purgedhcp_show \/ purgedhcp_old \/ purgedhcp_confirm
               \/ purgedhcp_purged \/ purgedhcp_new \/ purgedhcp_end
               \/ purgedhcp_return

----------------------------------------------------------------------------
(* fortigate_remote_console_erasedisk *)

\* before.splitlines() of the second 'exec erase-disk' match: the lines of
\* the listing (a line is its space-separated tokens), the last one the
\* prompt with the command typed so far.
PromptLine == <<"FGT1", "(global)", "#">>

DiskListings ==
    { << Blank, <<"SYSTEM", "(boot)">>, <<"HDD1">>, Blank, PromptLine >>,
      << Blank, <<"HDD1">>, <<"HDD2">>, Blank, PromptLine >>,
      << Blank, <<"HDD1">>, <<"HDD2">>, PromptLine >>,
      << Blank, PromptLine >> }

\* Line 271: [disk.strip().split(' ')[0] for disk in output[0:-2] if disk.strip()]
ListDisk(output) ==
    LET kept == SelectSeq(SubSeq(output, 1, Len(output) - 2), LAMBDA l : l # Blank)
    IN  [k \in 1..Len(kept) |-> kept[k][1]]

Msg2(v, d) == [t |-> "msg", v |-> v, d |-> d]

\* Lines 301-304.
EraseStarts(out, disk) ==
    out \o << Msg("WARNING:"), Msg2("erase-disk starts running on", disk),
              Msg("This will permanently erase all data from the storage media."),
              Msg("Please do not unplug or turn off FortiGate and wait") >>

\* Lines 337-338, 347-348.
EraseFinished(out, disk) ==
    out \o << Msg2("erase-disk finish running on", disk),
              Msg("erase-disk finish in N minutes") >>

erasedisk_begin == Begin("erasedisk", "erasedisk_252")

erasedisk_global == EnterGlobal("erasedisk_252", "erasedisk_256")

\* Lines 256-259.
erasedisk_query ==
    Linear("erasedisk_256", rcs_fgt_prompt, "", <<Lit("exec erase-disk ?")>>,
           "erasedisk_260", "close")

\* Line 260: the echo of the command.
erasedisk_echo ==
    Linear("erasedisk_260", << Pat("exec erase-disk") >>, "", <<>>, "erasedisk_261",
           "close")

\* Lines 261-266: the listing is captured, then logout() is called.
erasedisk_listing ==
    /\ pc = "erasedisk_261"
    /\ \/ /\ Answers(<< Pat("exec erase-disk") >>)
          /\ \E output \in DiskListings :
                /\ outputs' = Append(outputs, Block("exec erase-disk ?"))
                /\ for_seq' = output
                /\ CallLogout("erasedisk_266")
                /\ UNCHANGED <<rcs_console, transports, rcs_result, returned>>
       \/ /\ Fails(<< Pat("exec erase-disk") >>, "close")
          /\ UNCHANGED for_seq
    /\ UNCHANGED <<inputv, rcs_fgt_prompt, wait_for_reboot, for_i, show_old,
                   login_end, boundv>>

\* Line 351 after the for loop ended, then the finally block.
EraseDone(out) ==
    /\ outputs' = out
    /\ rcs_result' = [rcs_result EXCEPT !.status = 0]
    /\ tx' = <<>>
    /\ FinallyClose
    /\ UNCHANGED <<ret, login_end>>

\* Lines 271-275: the disks are parsed and the for loop starts.
erasedisk_disks ==
    /\ pc = "erasedisk_266"
    /\ for_seq' = ListDisk(for_seq)
    /\ IF ListDisk(for_seq) = <<>>
       THEN EraseDone(outputs) /\ UNCHANGED for_i
       ELSE /\ for_i' = 1
            /\ CallLogin("erasedisk_275")
            /\ UNCHANGED resv
    /\ UNCHANGED <<inputv, rcs_fgt_prompt, wait_for_reboot, show_old, expv,
                   boundv>>

erasedisk_disk_global == EnterGlobal("erasedisk_275", "erasedisk_277")

\* Lines 277-279.
erasedisk_erase ==
    Linear("erasedisk_277", rcs_fgt_prompt, "",
           <<<<"exec erase-disk ", for_seq[for_i]>>>>, "erasedisk_280", "close")

\* Lines 280-285.
erasedisk_sure ==
    Linear("erasedisk_280", << Pat("Are you sure you want to proceed? (y/n)") >>,
           "exec erase-disk", <<Lit("y")>>, "erasedisk_286", "close")

\* Line 286.
TimesPatterns == << Pat("How many times do you wish to overwrite the media?") >>

\* Line 296.
RestorePatterns == << Pat("Do you want to restore the image after erasing? (y/n)") >>

\* Lines 286-304 for a disk other than SYSTEM, 286-296 for SYSTEM.
erasedisk_times ==
    /\ pc = "erasedisk_286"
    /\ \/ /\ Answers(TimesPatterns)
          /\ LET out == Append(outputs, Block("y"))
                 disk == for_seq[for_i]
             IN  IF disk = "SYSTEM"
                 THEN outputs' = out /\ Sends(<<Lit("1")>>, "erasedisk_296")
                 ELSE /\ outputs' = EraseStarts(out, disk)
                      /\ Sends(<<Lit("1")>>, "erasedisk_322")
       \/ Fails(TimesPatterns, "close")
    /\ UNCHANGED <<inputv, rcs_fgt_prompt, wait_for_reboot, loopv, show_old,
                   login_end, boundv>>

\* erasedisk_restore followed by the reboot-wait loop, as for the other
\* disks.
erasedisk_restore_wait ==
    /\ pc = "erasedisk_296"
    /\ \/ /\ Answers(RestorePatterns)
          /\ outputs' = EraseStarts(Append(outputs, Block("1")), for_seq[for_i])
          /\ Sends(<<Lit("n")>>, "erasedisk_322")
       \/ Fails(RestorePatterns, "close")
    /\ UNCHANGED <<inputv, rcs_fgt_prompt, wait_for_reboot, loopv, show_old,
                   login_end, boundv>>

\* Lines 296-304: SYSTEM, the image-restore question.
erasedisk_restore ==
    /\ pc = "erasedisk_296"
    /\ \/ /\ Answers(RestorePatterns)
          /\ outputs' = EraseStarts(Append(outputs, Block("1")), for_seq[for_i])
          /\ Sends(<<Lit("n")>>, "erasedisk_341")
       \/ Fails(RestorePatterns, "close")
    /\ UNCHANGED <<inputv, rcs_fgt_prompt, wait_for_reboot, loopv, show_old,
                   login_end, boundv>>

\* EraseNext with lines 339 and 349 left out: changed keeps its preset.
EraseNextUnchanged(out) ==
    LET done == EraseFinished(out, for_seq[for_i])
    IN  IF for_i < Len(for_seq)
        THEN /\ outputs' = done
             /\ for_i' = for_i + 1
             /\ CallLogin("erasedisk_275")
             /\ UNCHANGED <<rcs_result, returned>>
        ELSE /\ outputs' = done
             /\ rcs_result' = [rcs_result EXCEPT !.status = 0]
             /\ tx' = <<>>
             /\ FinallyClose
             /\ UNCHANGED <<ret, for_i, login_end>>

\* EraseNext with status set where changed is set, after each disk.
EraseNextOk(out) ==
    LET done == EraseFinished(out, for_seq[for_i])
    IN  /\ outputs' = done
        /\ rcs_result' = [rcs_result EXCEPT !.changed = TRUE, !.status = 0]
        /\ IF for_i < Len(for_seq)
           THEN /\ for_i' = for_i + 1
                /\ CallLogin("erasedisk_275")
                /\ UNCHANGED returned
           ELSE /\ tx' = <<>>
                /\ FinallyClose
                /\ UNCHANGED <<ret, for_i, login_end>>

\* Lines 337-339 or 347-349, then line 274: the disk is finished; login()
\* for the next disk, or the end of the for loop.
EraseNext(out) ==
    LET done == EraseFinished(out, for_seq[for_i])
    IN  IF for_i < Len(for_seq)
        THEN /\ outputs' = done
             /\ rcs_result' = [rcs_result EXCEPT !.changed = TRUE]
             /\ for_i' = for_i + 1
             /\ CallLogin("erasedisk_275")
             /\ UNCHANGED returned
        ELSE /\ outputs' = done
             /\ rcs_result' = [rcs_result EXCEPT !.changed = TRUE, !.status = 0]
             /\ tx' = <<>>
             /\ FinallyClose
             /\ UNCHANGED <<ret, for_i, login_end>>

\* Lines 321-339.
erasedisk_wait ==
    /\ pc = "erasedisk_322"
    /\ \/ \E e \in Screens, index \in 1..4 :
            /\ FirstMatch(RebootPatterns5, e) = index
            /\ nloop < MaxRebootEvents
            /\ nloop' = nloop + 1
            /\ Answered(RebootPatterns5, e, index)
            /\ LET out == Append(outputs, Block(e.h))
                   flag == FlagAfter(index, 3, 4, wait_for_reboot)
               IN  /\ wait_for_reboot' = flag
                   /\ IF index \in {1, 2}
                      THEN IF flag = "unbound"
                           THEN /\ RaiseClose(out, "UnboundLocalError")
                                /\ UNCHANGED <<for_i, login_end>>
                           ELSE IF SkipsPrompt(flag)
                                THEN /\ outputs' = out
                                     /\ Sends(<<>>, "erasedisk_322")
                                     /\ UNCHANGED <<for_i, login_end>>
                                ELSE EraseNext(out)
                      ELSE /\ outputs' = out
                           /\ Sends(<<>>, "erasedisk_322")
                           /\ UNCHANGED <<for_i, login_end>>
       \/ \E x \in ExpectErrors(RebootPatterns5) :
            /\ Raised
            /\ RaiseClose(outputs, x)
            /\ UNCHANGED <<wait_for_reboot, nloop, for_i, login_end>>
    /\ UNCHANGED <<inputv, rcs_fgt_prompt, for_seq, show_old, nresets>>

\* Lines 341-349: SYSTEM is finished by the boot-device message.
erasedisk_system ==
    /\ pc = "erasedisk_341"
    /\ \/ /\ Answers(<< Pat("You must format the boot device") >>)
          /\ EraseNext(Append(outputs, Block("n")))
       \/ /\ Fails(<< Pat("You must format the boot device") >>, "close")
          /\ UNCHANGED <<for_i, login_end>>
    /\ UNCHANGED <<inputv, rcs_fgt_prompt, wait_for_reboot, for_seq, show_old, boundv>>

Erasedisk == erasedisk_begin \/ erasedisk_global \/ erasedisk_query
               \/ erasedisk_echo \/ erasedisk_listing \/ erasedisk_disks
               \/ erasedisk_disk_global \/ erasedisk_erase \/ erasedisk_sure
               \/ erasedisk_times \/ erasedisk_restore \/ erasedisk_wait
               \/ erasedisk_system

----------------------------------------------------------------------------
(* fortigate_remote_console_diskformat *)

\* Lines of the `exec disk list` output, as the two regular expressions of
\* lines 392-393 see them.
DiskLine(name, ref) == [k |-> "Disk", name |-> name, ref |-> ref]
PartLine(ref) == [k |-> "partition", name |-> "", ref |-> ref]
OtherLine == [k |-> "other", name |-> "", ref |-> ""]
BlankLine == [k |-> "blank", name |-> "", ref |-> ""]

DiskListOutputs ==
    { << OtherLine, DiskLine("SYSTEM", "255"), PartLine("1"),
         DiskLine("HDD1", "16"), BlankLine >>,
      << OtherLine, DiskLine("HDD1", "16"), DiskLine("HDD2", "17"), BlankLine >>,
      << OtherLine, DiskLine("SYSTEM", "255"), PartLine("1"), BlankLine >>,
      << OtherLine, PartLine("1"), DiskLine("HDD1", "16"), BlankLine >>,
      << OtherLine, DiskLine("SYSTEM", "255"), PartLine("1"),
         DiskLine("HDD1", "16") >> }

\* Line 388: [info.strip() for info in output[0:-1] if info.strip()]
ListInfo(output) ==
    SelectSeq(SubSeq(output, 1, Len(output) - 1), LAMBDA l : l.k # "blank")

\* Lines 390-401: the for loop over list_info from position k on; `disks` is
\* the list so far.  A partition line before the first Disk line reads the
\* unbound local `disk`.
RECURSIVE ParseDisks(_, _, _)
ParseDisks(list_info, k, disks) ==
    IF k > Len(list_info) THEN [disks |-> disks, error |-> ""]
    ELSE LET info == list_info[k]
         IN  IF info.k = "Disk"
             THEN ParseDisks(list_info, k + 1,
                    Append(disks, [name |-> info.name, ref |-> info.ref,
                                   partition |-> <<>>]))
             ELSE IF info.k = "partition"
             THEN IF disks = <<>>
                  THEN [disks |-> disks, error |-> "UnboundLocalError"]
                  ELSE ParseDisks(list_info, k + 1,
                         [disks EXCEPT ![Len(disks)].partition =
                                          Append(@, info.ref)])
             ELSE ParseDisks(list_info, k + 1, disks)

\* ZeroPartitionDisk without the test of line 407: every disk is formatted.
ZeroPartitionDiskAll(disks) == disks

\* Lines 405-408.
ZeroPartitionDisk(disks) == SelectSeq(disks, LAMBDA d : Len(d.partition) = 0)

diskformat_begin == Begin("diskformat", "diskformat_371")

diskformat_global == EnterGlobal("diskformat_371", "diskformat_375")

\* Lines 375-378.
diskformat_list ==
    Linear("diskformat_375", rcs_fgt_prompt, "", <<Lit("exec disk list")>>,
           "diskformat_379", "close")

\* Lines 379-384: the list is captured, then logout() is called.
diskformat_listing ==
    /\ pc = "diskformat_379"
    /\ \/ /\ Answers(rcs_fgt_prompt)
          /\ \E output \in DiskListOutputs :
                /\ outputs' = Append(outputs, Block("exec disk list"))
                /\ for_seq' = output
                /\ CallLogout("diskformat_384")
                /\ UNCHANGED <<rcs_console, transports, rcs_result, returned>>
       \/ /\ Fails(rcs_fgt_prompt, "close")
          /\ UNCHANGED for_seq
    /\ UNCHANGED <<inputv, rcs_fgt_prompt, wait_for_reboot, for_i, show_old,
                   login_end, boundv>>

\* Line 445 after the for loop ended (or was not entered), then the finally
\* block.
FormatDone(out, result) ==
    /\ outputs' = out
    /\ rcs_result' = [result EXCEPT !.status = 0]
    /\ tx' = <<>>
    /\ FinallyClose
    /\ UNCHANGED <<ret, login_end>>

\* Lines 388-413: the list is parsed and the for loop starts.
diskformat_parse ==
    /\ pc = "diskformat_384"
    /\ LET parsed == ParseDisks(ListInfo(for_seq), 1, <<>>)
           zero_partition_disk == ZeroPartitionDisk(parsed.disks)
           result == [status |-> rcs_result.status, changed |-> rcs_result.changed,
                      disks |-> parsed.disks]
       IN  IF parsed.error # ""
           THEN /\ RaiseClose(outputs, parsed.error)
                /\ UNCHANGED <<loopv, login_end>>
           ELSE /\ for_seq' = zero_partition_disk
                /\ IF Len(zero_partition_disk) = 0
                   THEN FormatDone(outputs, result) /\ UNCHANGED for_i
                   ELSE /\ rcs_result' = result
                        /\ for_i' = 1
                        /\ CallLogin("diskformat_413")
                        /\ UNCHANGED <<outputs, returned>>
    /\ UNCHANGED <<inputv, rcs_fgt_prompt, wait_for_reboot, show_old, expv,
                   boundv>>

diskformat_disk_global == EnterGlobal("diskformat_413", "diskformat_415")

\* Lines 415-417.
diskformat_format ==
    Linear("diskformat_415", rcs_fgt_prompt, "",
           <<<<"exec disk format ", for_seq[for_i].ref>>>>, "diskformat_418",
           "close")

\* Lines 418-427.
diskformat_confirm ==
    Linear("diskformat_418", ConfirmPatterns, "exec disk format", <<Lit("y")>>,
           "diskformat_429", "close")

\* Line 443, then line 412: the disk is formatted; login() for the next
\* disk, or the end of the for loop.
FormatNext(out) ==
    IF for_i < Len(for_seq)
    THEN /\ outputs' = out
         /\ rcs_result' = [rcs_result EXCEPT !.changed = TRUE]
         /\ for_i' = for_i + 1
         /\ CallLogin("diskformat_413")
         /\ UNCHANGED returned
    ELSE /\ FormatDone(out, [rcs_result EXCEPT !.changed = TRUE])
         /\ UNCHANGED for_i

\* Lines 428-443.
diskformat_wait ==
    /\ pc = "diskformat_429"
    /\ \/ \E e \in Screens, index \in 1..4 :
            /\ FirstMatch(RebootPatterns5, e) = index
            /\ nloop < MaxRebootEvents
            /\ nloop' = nloop + 1
            /\ Answered(RebootPatterns5, e, index)
            /\ LET out == Append(outputs, Block(e.h))
                   flag == FlagAfter(index, 3, 4, wait_for_reboot)
               IN  /\ wait_for_reboot' = flag
                   /\ IF index \in {1, 2}
                      THEN IF flag = "unbound"
                           THEN /\ RaiseClose(out, "UnboundLocalError")
                                /\ UNCHANGED <<for_i, login_end>>
                           ELSE IF SkipsPrompt(flag)
                                THEN /\ outputs' = out
                                     /\ Sends(<<>>, "diskformat_429")
                                     /\ UNCHANGED <<for_i, login_end>>
                                ELSE FormatNext(out)
                      ELSE /\ outputs' = out
                           /\ Sends(<<>>, "diskformat_429")
                           /\ UNCHANGED <<for_i, login_end>>
       \/ \E x \in ExpectErrors(RebootPatterns5) :
            /\ Raised
            /\ RaiseClose(outputs, x)
            /\ UNCHANGED <<wait_for_reboot, nloop, for_i, login_end>>
    /\ UNCHANGED <<inputv, rcs_fgt_prompt, for_seq, show_old, nresets>>

Diskformat == diskformat_begin \/ diskformat_global \/ diskformat_list
                \/ diskformat_listing \/ diskformat_parse
                \/ diskformat_disk_global \/ diskformat_format
                \/ diskformat_confirm \/ diskformat_wait

----------------------------------------------------------------------------
Next == Login \/ Logout \/ Cli \/ Reboot \/ Factoryreset \/ Restoreimage
          \/ Purgedhcp \/ Erasedisk \/ Diskformat

Spec == Init /\ [][Next]_vars

----------------------------------------------------------------------------
(* Properties *)

Last(seq) == seq[Len(seq)]

\* The positions of the five reboot-wait loops.
LoopPcs == {"reboot_164", "factoryreset_217", "erasedisk_322", "diskformat_429",
            "restoreimage_566"}

\* This step is a turn of a reboot-wait loop that matched `text`.
SeesInLoop(text) ==
    /\ pc \in LoopPcs
    /\ Len(outputs') > Len(outputs)
    /\ outputs'[Len(outputs) + 1] = Block(text)

\* The loop waits on after this step.
LoopGoesOn ==
    /\ pc' = pc
    /\ ~returned'
    /\ rcs_result' = rcs_result
    /\ for_i' = for_i

\* The loop ends with this step and the try block goes on without an error.
LoopAccepts ==
    /\ pc' # pc
    /\ rcs_result'.changed
    /\ Last(outputs').t # "error"

\* The last three blocks are 'please wait for reboot', login, 'System is
\* starting'.
WaitLoginStarting ==
    /\ Len(outputs) >= 3
    /\ SubSeq(outputs, Len(outputs) - 2, Len(outputs)) =
         << Block("please wait for reboot"), Block(" login: "),
            Block("System is starting") >>

HasError == \E k \in 1..Len(outputs) : outputs[k].t = "error"

CliAborted == \E k \in 1..Len(outputs) : outputs[k] = Msg("password was changed")

CleanupPcs == {"logout_778", "logout_783", "cli_133", "purgedhcp_650"}

\* C1: in every reboot-wait loop a login prompt matched while wait_for_reboot
\* is set never ends the loop; after 'please wait for reboot', login prompt,
\* 'System is starting', the next login prompt ends it.
C1_LoginSkippedWhileWaiting ==
    [][ /\ (SeesInLoop(" login: ") /\ wait_for_reboot = "True") => LoopGoesOn
        /\ (SeesInLoop(" login: ") /\ WaitLoginStarting) => LoopAccepts ]_vars

W_C1 ==
    /\ action = "reboot"
    /\ returned
    /\ rcs_result.status = 0
    /\ outputs = << Block("exec reboot"), Block("please wait for reboot"),
                    Block(" login: "), Block("System is starting"),
                    Block(" login: ") >>

\* C2: in every reboot-wait loop a login prompt matched while wait_for_reboot
\* is not set (cleared, or never set) ends the loop successfully.
C2_ClearLoginAccepted ==
    [][ (SeesInLoop(" login: ") /\ wait_for_reboot # "True") => LoopAccepts ]_vars

\* C3: when the action returns, every transport it spawned has been closed
\* exactly once.
C3_ClosedExactlyOnce ==
    returned => \A i \in 1..Len(transports) : transports[i] = 1

\* C4: an action ends by returning a result with status and changed; once
\* an error was raised in its command sequence the status is failed, the
\* error text is the last transcript entry, and only cleanup is left to do.
C4_ErrorsBecomeFailed ==
    /\ returned <=> pc = "done"
    /\ returned => /\ {"status", "changed"} \subseteq DOMAIN rcs_result
                   /\ rcs_result.status \in {0, 1}
                   /\ rcs_result.changed \in BOOLEAN
    /\ HasError => /\ rcs_result.status = 1
                   /\ Last(outputs).t = "error"
                   /\ returned \/ pc \in CleanupPcs

W_C4 ==
    /\ returned
    /\ action = "erasedisk"
    /\ rcs_result.changed
    /\ Last(outputs) = Error("TIMEOUT")

\* C5: when login() ended in an error, the action returns status failed and
\* changed false.
C5_FailedLoginFails ==
    (returned /\ login_end = "error") =>
        (rcs_result.status = 1 /\ rcs_result.changed = FALSE)

\* C6: cli returns changed true exactly when every command line was sent and
\* answered and the sequence was not aborted.
C6_ChangedIffComplete ==
    (returned /\ action = "cli") =>
        (rcs_result.changed <=>
           /\ Len(rcs_fgt_cli) > 0
           /\ Cardinality({k \in 1..Len(outputs) : outputs[k].t = "block"})
                = Len(rcs_fgt_cli[1])
           /\ ~CliAborted)

\* C7: once cli saw the login prompt or the banner after a command, it has
\* returned: nothing is in flight, no further command line is sent and the
\* transport it held is closed.
C7_AbortStops ==
    (action = "cli" /\ CliAborted) =>
        /\ returned
        /\ pc = "done"
        /\ tx = <<>>
        /\ rcs_console = None
        /\ transports[Len(transports)] = 1

W_C7 ==
    /\ action = "cli"
    /\ CliAborted
    /\ returned
    /\ for_i < Len(for_seq)

\* C8 as stated: in cli the prompt patterns are recomputed after a command
\* exactly when its output matched the sub-context slot (index 2).
C8_RecomputeOnSubContext ==
    [][ (pc = "cli_107" /\ last_index' >= 0) =>
          rcs_fgt_prompt' = IF last_index' = 2
                            THEN PromptPatterns(Hostname(before'))
                            ELSE rcs_fgt_prompt ]_vars

\* C8 amended: in cli the prompt patterns are recomputed, from the hostname
\* in the captured text and before the next command line is sent, exactly
\* when the output matched the generic hash slot (index 3).
C8_RecomputeOnGenericHash ==
    [][ (pc = "cli_107" /\ last_index' >= 0) =>
          /\ rcs_fgt_prompt' = IF last_index' = 3
                               THEN PromptPatterns(Hostname(before'))
                               ELSE rcs_fgt_prompt
          /\ (last_index' = 3 /\ for_i < Len(for_seq)) =>
                 /\ pc' = "cli_107"
                 /\ tx' = <<for_seq[for_i + 1]>> ]_vars

W_C8 ==
    /\ pc = "cli_107"
    /\ for_i = 2
    /\ last_index = 3
    /\ login_end = "ready"
    /\ rcs_fgt_prompt = PromptPatterns(Hostname(before))

\* C9: a cli run whose login reached Ready and whose waits all matched
\* without an abort returns ok and changed, with one block per command line,
\* in order, and nothing else in the transcript.
C9_OneBlockPerCommand ==
    ( /\ returned
      /\ action = "cli"
      /\ Len(rcs_fgt_cli) > 0
      /\ login_end = "ready"
      /\ ~HasError
      /\ ~CliAborted ) =>
        /\ rcs_result.status = 0
        /\ rcs_result.changed
        /\ outputs = [k \in 1..Len(rcs_fgt_cli[1]) |-> Block(rcs_fgt_cli[1][k][1])]

W_C9 ==
    /\ returned
    /\ action = "cli"
    /\ login_end = "ready"
    /\ rcs_result.status = 0
    /\ rcs_result.changed
    /\ Len(outputs) = 2
    /\ \A k \in 1..2 : outputs[k].t = "block"
    /\ outputs[1].v = "get system status"
    /\ outputs[2].v = "show system interface"

\* The prompts that end the reboot-wait loop of an action.
TerminalBlocks(a) ==
    IF a = "reboot" THEN {Block(" login: "), Block("to accept")}
    ELSE {Block(" login: ")}

\* C10 as stated: for reboot, factoryreset and restoreimage changed is true
\* exactly when status is ok, and status is ok only once the reboot-wait loop
\* has accepted a login prompt.
C10_OkOnlyAfterLogin ==
    action \in {"reboot", "factoryreset", "restoreimage"} =>
        /\ rcs_result.changed <=> rcs_result.status = 0
        /\ rcs_result.status = 0 =>
              /\ returned
              /\ Len(outputs) > 0
              /\ Last(outputs) = Block(" login: ")

\* C10 amended: for reboot, factoryreset and restoreimage changed is true
\* exactly when status is ok, and status is ok only once the reboot-wait loop
\* has accepted its terminal prompt with wait_for_reboot clear: the login
\* prompt, or for reboot also the 'to accept' banner.
C10_ChangedIffOk ==
    action \in {"reboot", "factoryreset", "restoreimage"} =>
        /\ rcs_result.changed <=> rcs_result.status = 0
        /\ rcs_result.status = 0 =>
              /\ returned
              /\ wait_for_reboot = "False"
              /\ Len(outputs) > 0
              /\ Last(outputs) \in TerminalBlocks(action)

W_C10 ==
    /\ action = "reboot"
    /\ returned
    /\ rcs_result.status = 0
    /\ rcs_result.changed
    /\ Last(outputs) = Block("to accept")

\* The number of disks whose completion erasedisk has recorded.
FinishedDisks ==
    Cardinality({k \in 1..Len(outputs) :
                   /\ outputs[k].t = "msg"
                   /\ outputs[k].v = "erase-disk finish running on"})

C12_InventoryAlwaysReturned ==
    (action = "diskformat" /\ returned) => "disks" \in DOMAIN rcs_result

\* The inventory the listing `lines` describes: one entry per Disk line, in
\* order, with the ids of the partition lines up to the next Disk line.
RECURSIVE InventoryOf(_)
InventoryOf(lines) ==
    IF lines = <<>> THEN <<>>
    ELSE LET rest == InventoryOf(SubSeq(lines, 1, Len(lines) - 1))
             l == lines[Len(lines)]
         IN  IF l.k = "Disk"
             THEN Append(rest, [name |-> l.name, ref |-> l.ref, partition |-> <<>>])
             ELSE IF l.k = "partition" /\ rest # <<>>
             THEN [rest EXCEPT ![Len(rest)].partition = Append(@, l.ref)]
             ELSE rest

\* C13: parsing any captured `exec disk list` output gives the inventory its
\* Disk and partition lines describe, and selects for formatting exactly
\* the entries with no partition.
C13_InventoryMatchesListing ==
    [][ pc = "diskformat_384" =>
          /\ "disks" \in DOMAIN rcs_result'
          /\ rcs_result'.disks = InventoryOf(for_seq)
          /\ for_seq' = SelectSeq(InventoryOf(for_seq),
                                  LAMBDA d : d.partition = <<>>) ]_vars

\* C14: purgedhcp has changed true exactly when both `show` captures were
\* taken (transcript entries 2 and 5) and they differ; a run whose captures
\* are the same returns changed false.
C14_ChangedIffCapturesDiffer ==
    action = "purgedhcp" =>
        (rcs_result.changed <=>
           /\ Len(outputs) >= 5
           /\ outputs[5].t = "block"
           /\ outputs[2].v # outputs[5].v)

W_C14 ==
    /\ action = "purgedhcp"
    /\ returned
    /\ rcs_result.status = 0
    /\ ~rcs_result.changed
    /\ Len(outputs) = 6
    /\ outputs[2] = outputs[5]

\* C15: in login, 'Login incorrect' after the device password is followed by
\* the same username and then, at the password prompt, an empty password;
\* when that retry reaches a hash prompt the login goes on to classify the
\* prompt, and when it does not, nothing more is sent and login() ends in
\* its error handler.  Neither outcome writes to the action's result.
C15_OneBlankRetry ==
    [][ /\ (pc = "login_700" /\ last_index' = 1) =>
              /\ tx' = <<Lit("rcs_fgt_username")>>
              /\ pc' = "login_706"
        /\ (pc = "login_706" /\ last_index' = 0) =>
              /\ tx' = <<Blank>>
              /\ pc' = "login_711"
        /\ pc = "login_711" =>
              /\ IF last_index' = 0
                 THEN /\ pc' = "login_678"
                      /\ tx' = <<Blank>>
                      /\ login_end' = "none"
                 ELSE /\ pc' = ret
                      /\ tx' = <<>>
                      /\ login_end' = "error"
              /\ UNCHANGED <<outputs, rcs_result>> ]_vars

W_C15 ==
    /\ pc = "login_711"
    /\ tx = <<Blank>>
    /\ last_index = 0
    /\ login_end = "none"

\* C16: when login detects a hash prompt, the hostname of the root and
\* sub-context patterns it derives is the first token of the last line
\* captured before the prompt, and a login that reached Ready holds such a
\* pattern list.
C16_HostnameIsFirstToken ==
    [][ /\ (pc = "login_678" /\ last_index' = 3) =>
              /\ before' # <<>>
              /\ Len(rcs_fgt_prompt') = 6
              /\ rcs_fgt_prompt'[2] = RootPat(before'[1])
              /\ rcs_fgt_prompt'[3] = SubPat(before'[1])
              /\ pc' = "login_722"
        /\ login_end' = "ready" =>
              /\ rcs_fgt_prompt' # <<>>
              /\ rcs_fgt_prompt'[2].h \in Hostnames ]_vars

W_C16 ==
    /\ pc = "login_722"
    /\ last_index = 3
    /\ before = <<"LabFGT1", "(ctx)">>
    /\ rcs_fgt_prompt = PromptPatterns("LabFGT1")

\* The six slots in their fixed order, root and sub-context prompt carrying
\* one hostname.
SixSlots(patterns) ==
    /\ Len(patterns) = 6
    /\ patterns[1] = Pat("dummy_placeholder")
    /\ patterns[2].k = "root"
    /\ patterns[3].k = "sub"
    /\ patterns[2].h = patterns[3].h
    /\ patterns[4] = Pat(" # ")
    /\ patterns[5] = Pat(" login: ")
    /\ patterns[6] = Pat("to accept")

\* C17: whenever self.rcs_fgt_prompt is set it holds the six slots in their
\* fixed order; it is written only by login's prompt detection and by cli's
\* hostname change, each time with the hostname just read from the capture.
C17_SixSlotsKept ==
    [][ /\ rcs_fgt_prompt' # <<>> => SixSlots(rcs_fgt_prompt')
        /\ rcs_fgt_prompt' # rcs_fgt_prompt =>
              /\ pc \in {"login_678", "cli_107"}
              /\ last_index' = 3
              /\ rcs_fgt_prompt'[2].h = Hostname(before') ]_vars

W_C17 ==
    /\ action = "cli"
    /\ pc = "cli_107"
    /\ for_i = 2
    /\ last_index = 3
    /\ before = <<"FGT1">>
    /\ rcs_fgt_prompt = PromptPatterns("FGT1")

\* C18: with wait_for_reboot clear the loops of reboot, erasedisk and
\* diskformat end on the 'to accept' banner as well as on the login prompt;
\* the loops of factoryreset and restoreimage never match the banner and end
\* without an error only on the login prompt.
C18_BannerEndsOnlySomeLoops ==
    [][ /\ ( /\ pc \in {"reboot_164", "erasedisk_322", "diskformat_429"}
             /\ wait_for_reboot' = "False"
             /\ SeesInLoop("to accept") \/ SeesInLoop(" login: ") )
           => LoopAccepts
        /\ pc \in {"factoryreset_217", "restoreimage_566"} =>
              /\ ~SeesInLoop("to accept")
              /\ LoopAccepts => /\ SeesInLoop(" login: ")
                                /\ last_index' = 1
                                /\ wait_for_reboot' = "False" ]_vars

W_C18 ==
    /\ action = "diskformat"
    /\ rcs_result.changed
    /\ wait_for_reboot = "False"
    /\ last_index = 1
    /\ Len(outputs) > 0
    /\ Last(outputs).t = "block"
    /\ Last(outputs).v = "to accept"

LogoutPcs == {"logout_778", "logout_783"}

\* C19: no step of logout() touches the transcript or the result of its
\* caller, and every step that leaves logout() returns to the caller with
\* the transport closed once more and let go; cli and purgedhcp then return
\* the status and changed they held when the cleanup began.
C19_LogoutAlwaysCloses ==
    [][ (pc \in CleanupPcs) =>
          /\ rcs_result' = rcs_result
          /\ outputs' = outputs
          /\ IF pc \in LogoutPcs
             THEN \/ pc' \in LogoutPcs /\ UNCHANGED <<rcs_console, transports>>
                  \/ /\ pc' = ret
                     /\ rcs_console # None
                     /\ rcs_console' = None
                     /\ transports' = Closed(transports, rcs_console)
             ELSE /\ returned'
                  /\ rcs_console' = None
      ]_vars

W_C19 ==
    /\ action = "cli"
    /\ returned
    /\ rcs_result.status = 0
    /\ rcs_result.changed
    /\ last_index = -1
    /\ ~HasError
    /\ rcs_console = None
    /\ transports = <<1>>

\* The positions where the code is not blocked in an expect(): before the
\* first call, between a return of login() or logout() and the next send,
\* and after the result was returned.
InternalPcs == {"start", "done", "cli_100", "cli_133", "purgedhcp_600",
                "purgedhcp_650", "reboot_146", "factoryreset_199",
                "restoreimage_466", "erasedisk_252", "erasedisk_266",
                "erasedisk_275",
                "diskformat_371", "diskformat_384", "diskformat_413"}

\* A step in which the device says nothing: the code computes, or the wait
\* it is blocked in raises.
SilentStep == pc \in InternalPcs \/ last_index' = -1

\* The code runs on, and a wait that hears nothing raises when its timeout
\* expires: every expect() is given a timeout or takes that of spawn (line
\* 665, 60 seconds).  On the behaviours where the device falls silent this
\* says that the timer of the pending wait runs out.
LiveSpec == Spec /\ WF_vars(SilentStep /\ Next)

\* C20: if from some point on the device says nothing, the action returns
\* its result.
C20_SilentDeviceReturns == <>[][SilentStep]_vars => <>returned

W_C20 ==
    /\ action = "reboot"
    /\ returned
    /\ rcs_result.status = 1
    /\ last_index = -1
    /\ Len(outputs) >= 2
    /\ Last(outputs).t = "error"
    /\ Last(outputs).v = "TIMEOUT"
    /\ transports = <<1>>

\* What logout() writes to the device: a blank line, 'abort', 'exit'.
CleanupTexts == {<<>>, <<Blank>>, <<Lit("abort")>>, <<Lit("exit")>>}

\* C21: once login() has ended in an error, the last text written to the
\* device is never a text of the action's own command sequence: nothing, or
\* what the cleanup writes.
C21_CommandsOnlyWhenReady == login_end = "error" => tx \in CleanupTexts

\* The hostname of the prompt the device has shown, read back from what the
\* wait left: the generic hash pattern leaves the whole hostname in the last
\* line, a hostname pattern leaves what stood in front of its hostname.
ShownHostname(patterns, line, index) ==
    IF index = 3 THEN line[1]
    ELSE IF line = <<>> THEN patterns[2].h
    ELSE "LabFGT1"

\* C22: in cli, after every command answered by a prompt, the prompt patterns
\* carry the hostname that prompt showed before the next line is sent.
C22_PatternsFollowHostname ==
    [][ (pc = "cli_107" /\ last_index' \in 1..3) =>
          rcs_fgt_prompt' =
             PromptPatterns(ShownHostname(rcs_fgt_prompt, before', last_index'))
      ]_vars

\* The device credentials as login() writes them.
Credentials == {<<Lit("rcs_fgt_username")>>, <<Lit("rcs_fgt_password")>>}

\* C23: login() writes the device username only when the classify wait has
\* matched the login prompt or, in the exchange that prompt began, the
\* answer was 'Login incorrect'; it writes the device password only to the
\* password prompt that follows the first username; a classify wait that
\* matches the hash prompt goes to the prompt derivation and writes a blank
\* line.
C23_CredentialsOnlyAtLoginPrompt ==
    [][ /\ (tx' # tx /\ tx' \in Credentials) =>
              \/ pc = "login_678" /\ last_index' = 2 /\ pc' = "login_695"
              \/ pc = "login_695" /\ last_index' = 0 /\ pc' = "login_700"
              \/ pc = "login_700" /\ last_index' = 1 /\ pc' = "login_706"
        /\ (pc' = "login_695" /\ pc # pc') => pc = "login_678" /\ last_index' = 2
        /\ (pc' = "login_700" /\ pc # pc') => pc = "login_695"
        /\ (pc' = "login_706" /\ pc # pc') => pc = "login_700"
        /\ (pc = "login_678" /\ last_index' = 3) =>
              /\ pc' = "login_722"
              /\ tx' = <<Blank>>
              /\ rcs_fgt_prompt' = PromptPatterns(Hostname(before')) ]_vars

W_C23 ==
    /\ pc = "login_722"
    /\ last_index = 3
    /\ tx = <<Blank>>
    /\ nresets = 0
    /\ login_end = "none"
    /\ before = <<"FGT1">>

NormalizePcs == {"login_722", "login_727", "login_732"}

\* C24 as stated: the paging-off sequence starts only on a match of the root
\* slot, and every match of the sub-context slot by a wait of the normalise
\* loop is followed by 'abort'.
C24_EverySubContextAborted ==
    [][ /\ (pc' = "login_738" /\ pc # pc') =>
              (pc \in NormalizePcs /\ last_index' = 1)
        /\ (pc \in NormalizePcs /\ last_index' = 2) =>
              (tx' = <<Lit("abort")>> /\ pc' = "login_727") ]_vars

\* C24 amended: the paging-off sequence starts only when the blank-line wait
\* or the wait after 'end' has matched the root slot of the derived
\* patterns; a sub-context match of the blank-line wait is answered with
\* 'abort', whatever answers 'abort' is followed by 'end', and every other
\* match of the blank-line wait or of the wait after 'end', the sub-context
\* slot there included, is followed by another blank line.
C24_NormalizeToRoot ==
    [][ /\ (pc' = "login_738" /\ pc # pc') =>
              /\ pc \in {"login_722", "login_732"}
              /\ last_index' = 1
              /\ tx' = <<Lit("config global")>>
        /\ (pc = "login_722" /\ last_index' = 2) =>
              (tx' = <<Lit("abort")>> /\ pc' = "login_727")
        /\ (pc = "login_727" /\ last_index' >= 0) =>
              (tx' = <<Lit("end")>> /\ pc' = "login_732")
        /\ (pc = "login_722" /\ last_index' \in 3..5) =>
              (tx' = <<Blank>> /\ pc' = "login_722")
        /\ (pc = "login_732" /\ last_index' \in 2..5) =>
              (tx' = <<Blank>> /\ pc' = "login_722") ]_vars

W_C24 ==
    /\ pc = "login_722"
    /\ tx = <<Blank>>
    /\ last_index = 2
    /\ before = <<>>
    /\ login_end = "none"

FormatsAsked ==
    Cardinality({k \in 1..Len(outputs) : /\ outputs[k].t = "block"
                                         /\ outputs[k].v = "exec disk format"})

\* C26: diskformat writes 'exec disk format <ref>' only in its for loop, for
\* the disk of the turn, and the disks of the loop are the entries of the
\* reported inventory that have no partition, in inventory order; the loop
\* moves to the next disk only when the reboot-wait loop has accepted a
\* terminal prompt with wait_for_reboot clear, so each disk is asked for at
\* most once; with no such disk nothing is written and the result is ok and
\* unchanged.
C26_FormatsZeroPartitionDisks ==
    [][ /\ (Len(tx') = 1 /\ Len(tx'[1]) = 2 /\ tx'[1][1] = "exec disk format ") =>
              /\ action = "diskformat"
              /\ pc = "diskformat_415"
              /\ last_index' >= 0
              /\ for_i \in 1..Len(for_seq)
              /\ tx'[1][2] = for_seq[for_i].ref
              /\ FormatsAsked = for_i - 1
              /\ "disks" \in DOMAIN rcs_result
              /\ for_seq = SelectSeq(rcs_result.disks, LAMBDA d : d.partition = <<>>)
        /\ (action = "diskformat" /\ for_i' # for_i) =>
              \/ pc = "diskformat_384" /\ for_i' = 1
              \/ /\ pc = "diskformat_429"
                 /\ for_i' = for_i + 1
                 /\ last_index' \in {1, 2}
                 /\ wait_for_reboot' = "False"
                 /\ rcs_result'.changed
        /\ ( /\ pc = "diskformat_384"
             /\ "disks" \in DOMAIN rcs_result'
             /\ \A k \in 1..Len(rcs_result'.disks) :
                    rcs_result'.disks[k].partition # <<>> ) =>
              /\ returned'
              /\ rcs_result'.status = 0
              /\ ~rcs_result'.changed
              /\ tx' = <<>>
              /\ FormatsAsked = 0 ]_vars

W_C26 ==
    /\ action = "diskformat"
    /\ pc = "diskformat_418"
    /\ for_i = 2
    /\ Len(for_seq) = 2
    /\ tx = <<<<"exec disk format ", for_seq[2].ref>>>>
    /\ Len(rcs_result.disks) = 2
    /\ FormatsAsked = 1

\* C27: in erasedisk the image-restore question is awaited, and answered
\* 'n', for SYSTEM only; SYSTEM is finished by the boot-device message and
\* never enters the reboot-wait loop, every other disk is finished by the
\* reboot-wait loop alone; the loop over the disks moves on, one disk at a
\* time, only when the disk of the turn is finished, and 'exec erase-disk'
\* is written for the disk of the turn when all disks before it are
\* finished.
C27_SystemDiskApart ==
    [][ action = "erasedisk" =>
          /\ (pc = "erasedisk_286" /\ last_index' >= 0) =>
                /\ tx' = <<Lit("1")>>
                /\ pc' = IF for_seq[for_i] = "SYSTEM" THEN "erasedisk_296"
                                                      ELSE "erasedisk_322"
          /\ (pc = "erasedisk_296" /\ last_index' >= 0) =>
                /\ for_seq[for_i] = "SYSTEM"
                /\ tx' = <<Lit("n")>>
                /\ pc' = "erasedisk_341"
          /\ (pc' = "erasedisk_341" /\ pc # pc') => pc = "erasedisk_296"
          /\ (pc' = "erasedisk_322" /\ pc # pc') =>
                (pc = "erasedisk_286" /\ for_seq[for_i] # "SYSTEM")
          /\ FinishedDisks' # FinishedDisks =>
                /\ FinishedDisks' = FinishedDisks + 1
                /\ FinishedDisks' = for_i
                /\ \/ /\ pc = "erasedisk_341"
                      /\ for_seq[for_i] = "SYSTEM"
                      /\ last_index' = 0
                   \/ /\ pc = "erasedisk_322"
                      /\ for_seq[for_i] # "SYSTEM"
                      /\ last_index' \in {1, 2}
                      /\ wait_for_reboot' = "False"
          /\ for_i' # for_i =>
                \/ pc = "erasedisk_266" /\ for_i' = 1
                \/ for_i' = for_i + 1 /\ FinishedDisks' = for_i
          /\ ( /\ Len(tx') = 1
               /\ Len(tx'[1]) = 2
               /\ tx'[1][1] = "exec erase-disk " ) =>
                /\ pc = "erasedisk_277"
                /\ tx'[1][2] = for_seq[for_i]
                /\ FinishedDisks = for_i - 1 ]_vars

W_C27 ==
    /\ action = "erasedisk"
    /\ pc = "erasedisk_322"
    /\ for_i = 2
    /\ for_seq = <<"SYSTEM", "HDD1">>
    /\ FinishedDisks = 1
    /\ tx = <<Lit("1")>>

\* The first token of every non-blank line of a listing but its last line,
\* the prompt.
RECURSIVE ListedDisks(_)
ListedDisks(output) ==
    IF Len(output) <= 1 THEN <<>>
    ELSE IF output[1] = Blank THEN ListedDisks(Tail(output))
    ELSE <<output[1][1]>> \o ListedDisks(Tail(output))

\* C28: the disks erasedisk loops over are the first tokens of the non-blank
\* lines of the listing, the prompt line left out and no disk dropped.
C28_EveryListedDiskErased ==
    [][ pc = "erasedisk_266" => for_seq' = ListedDisks(for_seq) ]_vars

\* Input line k of restoreimage without its double quotes.
TftpParam(k) ==
    IF Len(rcs_fgt_cli) > 0 /\ k <= Len(rcs_fgt_cli[1])
    THEN SelectSeq(rcs_fgt_cli[1][k], LAMBDA c : c # "\"")
    ELSE <<>>

\* The waits of the recovery menu in their order, with what restoreimage
\* writes when each one has matched.
WizardOrder ==
    << [at |-> "restoreimage_483", sent |-> <<Blank>>],
       [at |-> "restoreimage_489", sent |-> <<Lit("C")>>],
       [at |-> "restoreimage_494", sent |-> <<Lit("I"), TftpParam(1)>>],
       [at |-> "restoreimage_509", sent |-> <<Lit("S"), TftpParam(2)>>],
       [at |-> "restoreimage_517", sent |-> <<Lit("G"), TftpParam(3)>>],
       [at |-> "restoreimage_525", sent |-> <<Lit("T"), TftpParam(4)>>],
       [at |-> "restoreimage_533", sent |-> <<Lit("F"), TftpParam(5)>>],
       [at |-> "restoreimage_542", sent |-> <<Lit("R")>>],
       [at |-> "restoreimage_548", sent |-> <<Lit("Q")>>],
       [at |-> "restoreimage_554", sent |-> <<Lit("T")>>],
       [at |-> "restoreimage_560", sent |-> <<Lit("D")>>],
       [at |-> "restoreimage_566", sent |-> <<>>] >>

\* C29: restoreimage reaches each wait of the recovery menu only from the
\* wait before it, the first one only when the banner of the menu has
\* matched; a wait that matches is followed by the selection of its turn, C,
\* I, S, G, T, F, R, Q, T, the selections I, S, G, T and F each with its
\* unquoted input line; 'D' follows the save-firmware question and the
\* reboot-wait loop follows 'D'.  Before the banner only 'config global',
\* 'exec reboot' and 'y' are written.
C29_WizardInOrder ==
    [][ action = "restoreimage" =>
          /\ \A k \in 1..(Len(WizardOrder) - 1) :
                /\ (pc = WizardOrder[k].at /\ last_index' >= 0 /\ ~returned') =>
                      /\ tx' = WizardOrder[k].sent
                      /\ pc' = WizardOrder[k + 1].at
                /\ (pc' = WizardOrder[k + 1].at /\ pc # pc') =>
                      /\ pc = WizardOrder[k].at
                      /\ last_index' = 0
          /\ pc \in {"restoreimage_466", "restoreimage_469", "restoreimage_473"} =>
                tx' \in {<<>>, <<Lit("config global")>>, <<Lit("exec reboot")>>,
                         <<Lit("y")>>} ]_vars

W_C29 ==
    /\ action = "restoreimage"
    /\ pc = "restoreimage_566"
    /\ tx = <<Lit("D")>>
    /\ nloop = 0
    /\ login_end = "ready"
    /\ rcs_fgt_cli[1][1] = <<"\"", "192.168.210.5", "\"">>
    /\ for_seq[1] = <<"192.168.210.5">>
    /\ outputs[Len(outputs)] = Block("Q")

\* C30: each run of a reboot-wait loop starts with wait_for_reboot clear: the
\* reboot-wait loop of an action, and in erasedisk and diskformat the loop of
\* each disk, is entered with the flag False, whatever the waits before it
\* have seen.
C30_LoopStartsClear ==
    [][ (pc' \in LoopPcs /\ pc # pc') => wait_for_reboot' = "False" ]_vars

\* What the carried flag does not break: no loop is entered
\* with the flag set, so a login prompt is skipped only after a 'please wait
\* for reboot' of the same wait.
LoopNeverStartsSet ==
    [][ (pc' \in LoopPcs /\ pc # pc') => wait_for_reboot' # "True" ]_vars

\* restoreimage was given fewer than the five lines it reads.
FewerThanFiveLines == Len(rcs_fgt_cli) = 0 \/ Len(rcs_fgt_cli[1]) < 5

\* The transcript holds the block recorded when the question of 'exec reboot'
\* matched, the step that answers it with 'y'.
RebootConfirmed == \E k \in 1..Len(outputs) : outputs[k] = Block("exec reboot")

\* C31: restoreimage given fewer than five parameter lines returns
\* status=failed and changed=false, and has not sent 'exec reboot' and the
\* confirming 'y' to the device.
C31_ShortInputNotRebooted ==
    (action = "restoreimage" /\ returned /\ FewerThanFiveLines) =>
        /\ rcs_result.status = 1
        /\ rcs_result.changed = FALSE
        /\ ~RebootConfirmed

\* The half of it about the result alone.
ShortInputFails ==
    (action = "restoreimage" /\ returned /\ FewerThanFiveLines) =>
        rcs_result.status = 1 /\ rcs_result.changed = FALSE

====
